---------------------------- MODULE Spec2Model ----------------------------
(***************************************************************************)
(* Slushie: a fixed-denomination mixer contract (src/lib.rs) over an       *)
(* incremental Merkle tree with a ring buffer of recent roots              *)
(* (src/tree/merkle_tree.rs).                                              *)
(*                                                                         *)
(* Hash values.  A 32-byte value is modelled as a term: an atom <<k>> or   *)
(* the hash <<l, r>> of two values.  hash_left_right is therefore a        *)
(* collision-free hash (the cryptographic assumption the tree rests on).   *)
(*   <<0>>  the all-zero value [0; 32]                                     *)
(*   <<1>>  ZEROS[0] = blake2b-256([0; 32]), the empty-leaf constant       *)
(*   <<k>>  k >= 2: any other 32-byte value                                *)
(* The table ZEROS of merkle_tree.rs was recomputed with blake2b-256:      *)
(* ZEROS[i] = hash_left_right(ZEROS[i-1], ZEROS[i-1]) for i in 1..20, so   *)
(* entry i is the term built by that recurrence.                           *)
(*                                                                         *)
(* A Rust Vec v is a sequence; v[i] is VecGet(v, i) = v[i + 1].            *)
(***************************************************************************)
EXTENDS Integers, Sequences, FiniteSets, Bags, TLC

\* merkle_tree.rs:9 sets MAX_DEPTH = 20 and merkle_tree.rs:6 sets
\* ROOT_HISTORY_SIZE = 30; both are scaled down to keep the tree finite.
MAX_DEPTH == 2
ROOT_HISTORY_SIZE == 3

\* lib.rs:194 and lib.rs:250 (the deposit size and an amount that is not it).
DEFAULT_DEPOSIT_SIZE == 13
invalid_deposit_size == 77

ZERO_VALUE == <<0>>
NoHash == <<>>

\* Leaves offered to MerkleTree::insert: the all-zero value, the empty-leaf
\* constant and one other value.
Leaves == {<<0>>, <<1>>, <<2>>}
\* Commitments offered to the contract: the empty-leaf constant and one other.
Commitments == {<<1>>, <<2>>}
Callers == {"alice", "eve"}
Values == {DEFAULT_DEPOSIT_SIZE, invalid_deposit_size}
InitialBalances == {0}

VARIABLES
    depth,            \* the const generic DEPTH of the tree
    merkle_tree,      \* MerkleTree: current_root_index, next_index, filled_subtrees, roots
    deposit_size,     \* Slushie.deposit_size
    used_nullifiers,  \* Slushie.used_nullifiers: the keys mapped to true
    balance,          \* env().balance() of the contract
    events,           \* bag of emitted events
    pc,               \* position inside withdraw: "idle", "transfer", "mark"
    call,             \* arguments of the withdraw in progress
    ret,              \* the last call and what it returned (NoRet during a call)
    pre,              \* the contract state when the last call was entered
    leaves,           \* history: the leaves inserted so far, in order
    rootLog           \* history: the initial root and every root insert computed since

vars == <<depth, merkle_tree, deposit_size, used_nullifiers, balance, events,
          pc, call, ret, pre, leaves, rootLog>>

---------------------------------------------------------------------------
(* src/tree/merkle_tree.rs *)

Pow2(n) == 2 ^ n

VecGet(v, i) == v[i + 1]
VecHas(v, i) == i >= 0 /\ i < Len(v)

hash_left_right(left, right) == <<left, right>>

RECURSIVE ZEROS(_)
ZEROS(i) == IF i = 0 THEN <<1>> ELSE hash_left_right(ZEROS(i - 1), ZEROS(i - 1))

NoTree == [current_root_index |-> 0, next_index |-> 0,
           filled_subtrees |-> <<>>, roots |-> <<>>]

\* a constructor whose first root is the constant one level higher
New_RootOneLevelUp(DEPTH) ==
    IF DEPTH > MAX_DEPTH \/ DEPTH = 0
    THEN [err |-> "DepthTooLong", tree |-> NoTree]
    ELSE [err |-> "Ok",
          tree |-> [current_root_index |-> 0,
                    next_index |-> 0,
                    filled_subtrees |-> [i \in 1..(DEPTH + 1) |-> ZEROS(i - 1)],
                    roots |-> <<ZEROS(DEPTH)>>]]

\* a constructor that fills filled_subtrees one level too high
New_FilledOneLevelUp(DEPTH) ==
    IF DEPTH > MAX_DEPTH \/ DEPTH = 0
    THEN [err |-> "DepthTooLong", tree |-> NoTree]
    ELSE [err |-> "Ok",
          tree |-> [current_root_index |-> 0,
                    next_index |-> 0,
                    filled_subtrees |-> [i \in 1..(DEPTH + 1) |-> ZEROS(i)],
                    roots |-> <<ZEROS(DEPTH - 1)>>]]

\* a constructor that names the rejection of DEPTH = 0 differently
New_DepthIsZero(DEPTH) ==
    IF DEPTH = 0 THEN [err |-> "DepthIsZero", tree |-> NoTree]
    ELSE IF DEPTH > MAX_DEPTH THEN [err |-> "DepthTooLong", tree |-> NoTree]
    ELSE [err |-> "Ok",
          tree |-> [current_root_index |-> 0,
                    next_index |-> 0,
                    filled_subtrees |-> [i \in 1..(DEPTH + 1) |-> ZEROS(i - 1)],
                    roots |-> <<ZEROS(DEPTH - 1)>>]]

\* MerkleTree::new
New(DEPTH) ==
    IF DEPTH > MAX_DEPTH \/ DEPTH = 0
    THEN [err |-> "DepthTooLong", tree |-> NoTree]
    ELSE [err |-> "Ok",
          tree |-> [current_root_index |-> 0,
                    next_index |-> 0,
                    filled_subtrees |-> [i \in 1..(DEPTH + 1) |-> ZEROS(i - 1)],
                    roots |-> <<ZEROS(DEPTH - 1)>>]]

\* MerkleTree::get_last_root
get_last_root(t) == VecGet(t.roots, t.current_root_index)

\* roots.get(i).copied().unwrap_or([0; 32])
RootsGetOrZero(t, i) == IF VecHas(t.roots, i) THEN VecGet(t.roots, i) ELSE ZERO_VALUE

\* a step to the previous slot that does not wrap around at slot 0
PrevSlot_NoWrap(i) == IF i = 0 THEN 0 ELSE i - 1

\* if i == 0 { i = ROOT_HISTORY_SIZE; } i -= 1;
PrevSlot(i) == (IF i = 0 THEN ROOT_HISTORY_SIZE ELSE i) - 1

\* the loop of MerkleTree::is_known_root, entered with slot i
RECURSIVE KnownRootLoop(_, _, _)
KnownRootLoop(t, root, i) ==
    IF root = RootsGetOrZero(t, i)
    THEN TRUE
    ELSE LET j == PrevSlot(i)
         IN  IF j = t.current_root_index THEN FALSE ELSE KnownRootLoop(t, root, j)

\* the same loop, keeping the slots it examines in `seen`; `done` is FALSE
\* when the loop is still running after more than ROOT_HISTORY_SIZE slots
RECURSIVE VisitWalk(_, _, _, _)
VisitWalk(t, root, i, seen) ==
    LET s == Append(seen, i)
    IN  IF Len(s) > ROOT_HISTORY_SIZE
        THEN [slots |-> s, found |-> FALSE, done |-> FALSE]
        ELSE IF root = RootsGetOrZero(t, i)
        THEN [slots |-> s, found |-> TRUE, done |-> TRUE]
        ELSE LET j == PrevSlot(i)
             IN  IF j = t.current_root_index
                 THEN [slots |-> s, found |-> FALSE, done |-> TRUE]
                 ELSE VisitWalk(t, root, j, s)

\* MerkleTree::is_known_root with the slots it examines
KnownRootScan(t, root) ==
    IF root = ZERO_VALUE
    THEN [slots |-> <<>>, found |-> FALSE, done |-> TRUE]
    ELSE VisitWalk(t, root, t.current_root_index, <<>>)

\* is_known_root without its guard against the all-zero value
is_known_root_NoZeroCheck(t, root) == KnownRootLoop(t, root, t.current_root_index)

\* a lookup that only compares with the newest root
is_known_root_OnlyLast(t, root) == root # ZERO_VALUE /\ root = get_last_root(t)

\* MerkleTree::is_known_root
is_known_root(t, root) ==
    IF root = ZERO_VALUE THEN FALSE ELSE KnownRootLoop(t, root, t.current_root_index)

\* an iteration that records the node of a level on either side
InsertLevel_AlwaysStores(i, current_index, current_hash, filled) ==
    [hash   |-> IF current_index % 2 = 0
                THEN hash_left_right(current_hash, ZEROS(i))
                ELSE hash_left_right(VecGet(filled, i), current_hash),
     filled |-> IF VecHas(filled, i)
                THEN [filled EXCEPT ![i + 1] = current_hash]
                ELSE Append(filled, current_hash)]

\* an iteration that never records the left node of a level
InsertLevel_KeepsFilled(i, current_index, current_hash, filled) ==
    IF current_index % 2 = 0
    THEN [hash |-> hash_left_right(current_hash, ZEROS(i)), filled |-> filled]
    ELSE [hash |-> hash_left_right(VecGet(filled, i), current_hash), filled |-> filled]

\* one iteration of the for loop of MerkleTree::insert, at level i
InsertLevel(i, current_index, current_hash, filled) ==
    IF current_index % 2 = 0
    THEN [hash   |-> hash_left_right(current_hash, ZEROS(i)),
          filled |-> IF VecHas(filled, i)
                     THEN [filled EXCEPT ![i + 1] = current_hash]
                     ELSE Append(filled, current_hash)]
    ELSE [hash   |-> hash_left_right(VecGet(filled, i), current_hash),
          filled |-> filled]

\* the for loop of MerkleTree::insert, levels i .. DEPTH-1
RECURSIVE InsertWalk(_, _, _, _, _)
InsertWalk(i, DEPTH, current_index, current_hash, filled) ==
    IF i >= DEPTH
    THEN [hash |-> current_hash, filled |-> filled]
    ELSE LET s == InsertLevel(i, current_index, current_hash, filled)
         IN  InsertWalk(i + 1, DEPTH, current_index \div 2, s.hash, s.filled)

\* current_hash when the for loop of MerkleTree::insert ends: the new root
ComputedRoot(t, DEPTH, leaf) ==
    InsertWalk(0, DEPTH, t.next_index, leaf, t.filled_subtrees).hash

\* a store that puts a new slot in front of the others
StoreRoot_Prepends(roots, idx, h) ==
    IF VecHas(roots, idx) THEN [roots EXCEPT ![idx + 1] = h] ELSE <<h>> \o roots

\* a store that leaves a slot already written as it is
StoreRoot_KeepsOld(roots, idx, h) ==
    IF VecHas(roots, idx) THEN roots ELSE Append(roots, h)

\* a history that only grows instead of wrapping around
StoreRoot_AlwaysPush(roots, idx, h) == Append(roots, h)

\* where insert stores the new root
StoreRoot(roots, idx, h) ==
    IF VecHas(roots, idx) THEN [roots EXCEPT ![idx + 1] = h] ELSE Append(roots, h)

\* an insert without a capacity check
IsFull_Never(t, DEPTH) == FALSE

\* a capacity check that triggers one insertion early
IsFull_OneEarly(t, DEPTH) == t.next_index = Pow2(DEPTH) - 1

\* the capacity check of MerkleTree::insert
IsFull(t, DEPTH) == t.next_index = Pow2(DEPTH)

\* an insert that returns the index after the increment
ReturnedIndex_AfterIncrement(t) == t.next_index + 1

\* let next_index = self.next_index as usize; ... Ok(next_index)
ReturnedIndex(t) == t.next_index

\* a slot index that is advanced without the modulo
NextRootIndex_NoModulo(t) == t.current_root_index + 1

\* (self.current_root_index + 1) % ROOT_HISTORY_SIZE
NextRootIndex(t) == (t.current_root_index + 1) % ROOT_HISTORY_SIZE

\* MerkleTree::insert
Insert(t, DEPTH, leaf) ==
    IF IsFull(t, DEPTH)
    THEN [err |-> "MerkleTreeIsFull", index |-> -1, tree |-> t]
    ELSE LET w   == InsertWalk(0, DEPTH, t.next_index, leaf, t.filled_subtrees)
             idx == NextRootIndex(t)
         IN  [err   |-> "Ok",
              index |-> ReturnedIndex(t),
              tree  |-> [current_root_index |-> idx,
                         next_index         |-> t.next_index + 1,
                         filled_subtrees    |-> w.filled,
                         roots              |-> StoreRoot(t.roots, idx, w.hash)]]

---------------------------------------------------------------------------
(* State shared by the two specifications *)

NoCall == [caller |-> "", commitment |-> NoHash, root |-> NoHash]
NoRet  == [op |-> "none", err |-> "Ok", hash |-> NoHash, root |-> NoHash,
           value |-> 0, index |-> -1, to |-> ""]

Snapshot == [merkle_tree |-> merkle_tree, used_nullifiers |-> used_nullifiers,
             balance |-> balance, events |-> events]

InitWith(d) ==
    /\ depth = d
    /\ merkle_tree = New(d).tree
    /\ deposit_size = DEFAULT_DEPOSIT_SIZE
    /\ used_nullifiers = {}
    /\ balance \in InitialBalances
    /\ events = EmptyBag
    /\ pc = "idle"
    /\ call = NoCall
    /\ ret = NoRet
    /\ pre = [merkle_tree |-> New(d).tree, used_nullifiers |-> {},
              balance |-> balance, events |-> EmptyBag]
    /\ leaves = <<>>
    /\ rootLog = <<get_last_root(New(d).tree)>>

---------------------------------------------------------------------------
(* The tree on its own: any valid DEPTH, insert called directly *)

TreeInit == \E d \in 1..MAX_DEPTH : InitWith(d)

TreeInsert(leaf) ==
    LET r == Insert(merkle_tree, depth, leaf)
    IN  /\ pre' = Snapshot
        /\ merkle_tree' = r.tree
        /\ ret' = [NoRet EXCEPT !.op = "insert", !.err = r.err, !.hash = leaf,
                                !.index = r.index]
        /\ leaves' = IF r.err = "Ok" THEN Append(leaves, leaf) ELSE leaves
        /\ rootLog' = IF r.err = "Ok"
                      THEN Append(rootLog, ComputedRoot(merkle_tree, depth, leaf))
                      ELSE rootLog
        /\ UNCHANGED <<depth, deposit_size, used_nullifiers, balance, events, pc, call>>

TreeNext == \E leaf \in Leaves : TreeInsert(leaf)

TreeSpec == TreeInit /\ [][TreeNext]_vars

---------------------------------------------------------------------------
(* Construction with any DEPTH: MerkleTree::<DEPTH>::new() either returns a
   tree, on which insert is then called, or an error and no tree *)

Depths == 0..(MAX_DEPTH + 1)

\* MerkleTree::<d>::new() returned Err(e): there is no tree to call
ConstructionFailed(d, e) ==
    /\ depth = d
    /\ merkle_tree = NoTree
    /\ deposit_size = DEFAULT_DEPOSIT_SIZE
    /\ used_nullifiers = {}
    /\ balance \in InitialBalances
    /\ events = EmptyBag
    /\ pc = "idle"
    /\ call = NoCall
    /\ ret = [NoRet EXCEPT !.op = "new", !.err = e]
    /\ pre = [merkle_tree |-> NoTree, used_nullifiers |-> {},
              balance |-> balance, events |-> EmptyBag]
    /\ leaves = <<>>
    /\ rootLog = <<>>

ConstructInit ==
    \E d \in Depths :
        IF New(d).err = "Ok" THEN InitWith(d) ELSE ConstructionFailed(d, New(d).err)

ConstructNext == ret.op # "new" /\ TreeNext

ConstructSpec == ConstructInit /\ [][ConstructNext]_vars

---------------------------------------------------------------------------
(* src/lib.rs: the contract, whose tree is MerkleTree<MAX_DEPTH, ..> *)

Init == InitWith(MAX_DEPTH)

Deposited(h) == [kind |-> "Deposited", hash |-> h]
Withdrawn(h) == [kind |-> "Withdrawn", hash |-> h]
Emit(e) == events (+) SetToBag({e})

\* Mapping::get(commitment).is_some()
NullifierIsUsed(commitment) == commitment \in used_nullifiers

\* a deposit that accepts any attached amount
AmountIsValid_Any(value) == TRUE

\* the transferred_value check of Slushie::deposit
AmountIsValid(value) == value = deposit_size

\* Slushie::deposit with `value` attached (the caller is not read).  The
\* attached value reaches the contract's balance when the message succeeds.
Deposit(commitment, value) ==
    /\ pc = "idle"
    /\ pre' = Snapshot
    /\ LET r == Insert(merkle_tree, depth, commitment)
           e == IF ~AmountIsValid(value) THEN "InvalidTransferredAmount" ELSE r.err
       IN  /\ ret' = [NoRet EXCEPT !.op = "deposit", !.err = e,
                                   !.hash = commitment, !.value = value,
                                   !.root = IF e = "Ok" THEN get_last_root(r.tree)
                                            ELSE NoHash]
           /\ IF e = "Ok"
              THEN /\ merkle_tree' = r.tree
                   /\ events' = Emit(Deposited(commitment))
                   /\ balance' = balance + value
                   /\ leaves' = Append(leaves, commitment)
                   /\ rootLog' = Append(rootLog,
                                         ComputedRoot(merkle_tree, depth, commitment))
              ELSE UNCHANGED <<merkle_tree, events, balance, leaves, rootLog>>
    /\ UNCHANGED <<depth, deposit_size, used_nullifiers, pc, call>>

\* the checks with the funds tested before the claimed root
WithdrawCheck_FundsFirst(commitment, root) ==
    IF balance < deposit_size THEN "InsufficientFunds"
    ELSE IF ~is_known_root(merkle_tree, root) THEN "UnknownRoot"
    ELSE IF NullifierIsUsed(commitment) THEN "NullifierAlreadyUsed"
    ELSE "Ok"

\* the checks with a funds test that wants more than deposit_size
WithdrawCheck_NeedsMoreThanDeposit(commitment, root) ==
    IF ~is_known_root(merkle_tree, root) THEN "UnknownRoot"
    ELSE IF balance <= deposit_size THEN "InsufficientFunds"
    ELSE IF NullifierIsUsed(commitment) THEN "NullifierAlreadyUsed"
    ELSE "Ok"

\* the checks without the lookup of the claimed root
WithdrawCheck_NoRootCheck(commitment, root) ==
    IF balance < deposit_size THEN "InsufficientFunds"
    ELSE IF NullifierIsUsed(commitment) THEN "NullifierAlreadyUsed"
    ELSE "Ok"

\* the checks with the nullifier looked up before the funds
WithdrawCheck_NullifierFirst(commitment, root) ==
    IF ~is_known_root(merkle_tree, root) THEN "UnknownRoot"
    ELSE IF NullifierIsUsed(commitment) THEN "NullifierAlreadyUsed"
    ELSE IF balance < deposit_size THEN "InsufficientFunds"
    ELSE "Ok"

\* the three checks Slushie::withdraw makes before it transfers, in order
WithdrawCheck(commitment, root) ==
    IF ~is_known_root(merkle_tree, root) THEN "UnknownRoot"
    ELSE IF balance < deposit_size THEN "InsufficientFunds"
    ELSE IF NullifierIsUsed(commitment) THEN "NullifierAlreadyUsed"
    ELSE "Ok"

\* what withdraw(c.commitment, c.root) returns; `to` is the account paid
WithdrawRet(c, e) ==
    [NoRet EXCEPT !.op = "withdraw", !.err = e, !.hash = c.commitment,
                  !.root = c.root, !.to = IF e = "Ok" THEN c.caller ELSE ""]

\* The account that makes the deposits.  deposit never reads its caller and
\* the storage keeps no depositor, so the account is not part of the state.
Depositor == "alice"

\* a withdraw that only the depositor may make
WithdrawEnter_DepositorOnly(caller, commitment, root) ==
    /\ pc = "idle"
    /\ pre' = Snapshot
    /\ LET c == [caller |-> caller, commitment |-> commitment, root |-> root]
           e == IF caller # Depositor THEN "UnknownNullifier"
                ELSE WithdrawCheck(commitment, root)
       IN  IF e = "Ok"
           THEN /\ pc' = "transfer"
                /\ call' = c
                /\ ret' = NoRet
           ELSE /\ ret' = WithdrawRet(c, e)
                /\ UNCHANGED <<pc, call>>
    /\ UNCHANGED <<depth, merkle_tree, deposit_size, used_nullifiers, balance,
                   events, leaves, rootLog>>

\* a withdraw that may be entered while another one is in its transfer
WithdrawEnter_Reentrant(caller, commitment, root) ==
    /\ pre' = Snapshot
    /\ LET c == [caller |-> caller, commitment |-> commitment, root |-> root]
           e == WithdrawCheck(commitment, root)
       IN  IF e = "Ok"
           THEN /\ pc' = "transfer"
                /\ call' = c
                /\ ret' = NoRet
           ELSE /\ ret' = WithdrawRet(c, e)
                /\ UNCHANGED <<pc, call>>
    /\ UNCHANGED <<depth, merkle_tree, deposit_size, used_nullifiers, balance,
                   events, leaves, rootLog>>

\* Slushie::withdraw up to the transfer: the message is entered and the
\* checks run.  While pc # "idle" no other message is admitted.
WithdrawEnter(caller, commitment, root) ==
    /\ pc = "idle"
    /\ pre' = Snapshot
    /\ LET c == [caller |-> caller, commitment |-> commitment, root |-> root]
           e == WithdrawCheck(commitment, root)
       IN  IF e = "Ok"
           THEN /\ pc' = "transfer"
                /\ call' = c
                /\ ret' = NoRet
           ELSE /\ ret' = WithdrawRet(c, e)
                /\ UNCHANGED <<pc, call>>
    /\ UNCHANGED <<depth, merkle_tree, deposit_size, used_nullifiers, balance,
                   events, leaves, rootLog>>

\* a transfer that reports success and leaves the balance as it was
BalanceAfterTransfer_NeverDebits(ok) == balance

\* a transfer that takes the funds even when it reports failure
BalanceAfterTransfer_AlwaysDebits(ok) == balance - deposit_size

\* the contract's balance after env().transfer(caller, deposit_size)
BalanceAfterTransfer(ok) == IF ok THEN balance - deposit_size ELSE balance

\* Slushie::withdraw: env().transfer(caller, deposit_size), which the
\* environment lets succeed or fail
WithdrawTransfer(ok) ==
    /\ pc = "transfer"
    /\ balance' = BalanceAfterTransfer(ok)
    /\ IF ok
       THEN /\ pc' = "mark"
            /\ UNCHANGED <<call, ret>>
       ELSE /\ ret' = WithdrawRet(call, "InvalidDepositSize")
            /\ pc' = "idle"
            /\ call' = NoCall
    /\ UNCHANGED <<depth, merkle_tree, deposit_size, used_nullifiers, events,
                   pre, leaves, rootLog>>

\* a registry that keeps only the newest nullifier
MarkUsed_Replaces(commitment) == {commitment}

\* a withdraw that forgets to record the nullifier
MarkUsed_Forgets(commitment) == used_nullifiers

\* used_nullifiers.insert(commitment, &true)
MarkUsed(commitment) == used_nullifiers \cup {commitment}

\* a withdraw that advances the tree's root slot when it finishes
WithdrawFinish_TouchesTree ==
    /\ pc = "mark"
    /\ merkle_tree' = [merkle_tree EXCEPT !.current_root_index = NextRootIndex(merkle_tree)]
    /\ used_nullifiers' = MarkUsed(call.commitment)
    /\ events' = Emit(Withdrawn(call.commitment))
    /\ ret' = WithdrawRet(call, "Ok")
    /\ pc' = "idle"
    /\ call' = NoCall
    /\ UNCHANGED <<depth, deposit_size, balance, pre, leaves, rootLog>>

\* Slushie::withdraw after the transfer: mark, emit, return Ok
WithdrawFinish ==
    /\ pc = "mark"
    /\ used_nullifiers' = MarkUsed(call.commitment)
    /\ events' = Emit(Withdrawn(call.commitment))
    /\ ret' = WithdrawRet(call, "Ok")
    /\ pc' = "idle"
    /\ call' = NoCall
    /\ UNCHANGED <<depth, merkle_tree, deposit_size, balance, pre, leaves, rootLog>>

\* Slushie::get_root_hash
get_root_hash == get_last_root(merkle_tree)

\* Roots a caller may claim: the all-zero value, the empty-subtree constants
\* (the initial root among them) and every root the tree has produced.
ClaimRoots ==
    {ZERO_VALUE} \cup {ZEROS(j) : j \in 0..(depth - 1)}
                 \cup {rootLog[k] : k \in 1..Len(rootLog)}

Next ==
    \/ \E c \in Commitments, v \in Values : Deposit(c, v)
    \/ \E caller \in Callers, c \in Commitments, r \in ClaimRoots :
           WithdrawEnter(caller, c, r)
    \/ \E ok \in BOOLEAN : WithdrawTransfer(ok)
    \/ WithdrawFinish

Spec == Init /\ [][Next]_vars

---------------------------------------------------------------------------
(* Properties of the tree (checked under TreeSpec) *)

InsertReturned == ret.op = "insert"
InsertSucceeded == ret.op = "insert" /\ ret.err = "Ok"
InsertFailed == ret.op = "insert" /\ ret.err # "Ok"

\* The node at `level` and position `pos` of the full binary tree whose
\* leaves are ls followed by empty leaves, every node hashed from its two
\* children.
RECURSIVE NodeHash(_, _, _)
NodeHash(ls, level, pos) ==
    IF level = 0
    THEN IF pos < Len(ls) THEN ls[pos + 1] ELSE ZEROS(0)
    ELSE hash_left_right(NodeHash(ls, level - 1, 2 * pos),
                         NodeHash(ls, level - 1, 2 * pos + 1))

ReferenceRoot(DEPTH, ls) == NodeHash(ls, DEPTH, 0)

\* C2: after any n successful inserts the last root is the root of the full
\* tree of height DEPTH recomputed from the n inserted leaves padded with
\* empty leaves.
C2_LastRootIsReferenceRoot ==
    get_last_root(merkle_tree) = ReferenceRoot(depth, leaves)

\* The same from the first insert on (n >= 1).
LastRootIsReferenceRootAfterInsert ==
    Len(leaves) >= 1 => get_last_root(merkle_tree) = ReferenceRoot(depth, leaves)

\* The root of the tree without leaves is ZEROS[DEPTH], one level above the
\* root MerkleTree::new stores.
EmptyRootIsOneLevelUp ==
    Len(leaves) = 0 =>
        /\ ReferenceRoot(depth, leaves) = ZEROS(depth)
        /\ get_last_root(merkle_tree) = ZEROS(depth - 1)

\* Root number k of rootLog (k >= 2: produced by insert k-1) has been
\* followed by at least ROOT_HISTORY_SIZE further inserts.
AgedOut(k) == Len(rootLog) - k >= ROOT_HISTORY_SIZE
ProducedAgain(k) == \E j \in (k + 1)..Len(rootLog) : rootLog[j] = rootLog[k]
LastProducedIsKnown ==
    InsertSucceeded => is_known_root(merkle_tree, rootLog[Len(rootLog)])

\* C3 as stated: the root an insert produced is known right after it, and is
\* not known any more once ROOT_HISTORY_SIZE further inserts have succeeded.
C3_EvictedAfterHistorySize ==
    /\ LastProducedIsKnown
    /\ \A k \in 2..Len(rootLog) :
           AgedOut(k) => ~is_known_root(merkle_tree, rootLog[k])

\* C3 amended: the root an insert produced is known right after it; once
\* ROOT_HISTORY_SIZE further inserts have succeeded it is not known any more,
\* unless one of the later inserts produced the same root again, which only
\* an insert of the empty-leaf constant does.
C3_EvictedUnlessProducedAgain ==
    /\ LastProducedIsKnown
    /\ \A k \in 2..Len(rootLog) :
           (AgedOut(k) /\ ~ProducedAgain(k)) => ~is_known_root(merkle_tree, rootLog[k])
    /\ \A j \in 2..Len(rootLog) :
           rootLog[j] = rootLog[j - 1] => leaves[j - 1] = ZEROS(0)

C3_Witness ==
    /\ InsertSucceeded
    /\ is_known_root(merkle_tree, rootLog[Len(rootLog)])
    /\ \E k \in 2..Len(rootLog) :
           AgedOut(k) /\ ~ProducedAgain(k) /\ ~is_known_root(merkle_tree, rootLog[k])

\* C4: an insert fails, with MerkleTreeIsFull, exactly when 2^DEPTH inserts
\* have succeeded before it (next_index = 2^DEPTH), so the first 2^DEPTH
\* calls succeed and every later one fails; a failed insert changes nothing.
C4_FullExactlyAtCapacity ==
    /\ Len(leaves) <= Pow2(depth)
    /\ InsertReturned =>
           /\ ret.err \in {"Ok", "MerkleTreeIsFull"}
           /\ ret.err = "MerkleTreeIsFull" <=> pre.merkle_tree.next_index = Pow2(depth)
    /\ InsertFailed =>
           /\ Len(leaves) = Pow2(depth)
           /\ merkle_tree = pre.merkle_tree

C4_Witness ==
    /\ InsertFailed
    /\ depth = MAX_DEPTH
    /\ merkle_tree.next_index = Pow2(MAX_DEPTH)

\* C5: for every DEPTH in 1..MAX_DEPTH, after n successful inserts
\* next_index = n, and the n-th insert returned n-1.
C5_ConsecutiveIndexes ==
    /\ depth \in 1..MAX_DEPTH
    /\ merkle_tree.next_index = Len(leaves)
    /\ InsertSucceeded => ret.index = Len(leaves) - 1

C5_Witness ==
    /\ InsertSucceeded
    /\ depth = MAX_DEPTH
    /\ ret.index = Pow2(MAX_DEPTH) - 1

\* The roots the inserts so far have produced (rootLog[1] is the root the
\* tree was constructed with).
ProducedRoots == {rootLog[k] : k \in 2..Len(rootLog)}

\* C12: while fewer than ROOT_HISTORY_SIZE inserts have succeeded,
\* is_known_root is true for the initial root ZEROS[DEPTH-1] and for every
\* root produced so far, and false for every other entry ZEROS[j] of the
\* table that no insert has produced as a root.
C12_YoungHistoryKnowsAllRoots ==
    Len(leaves) < ROOT_HISTORY_SIZE =>
        /\ is_known_root(merkle_tree, ZEROS(depth - 1))
        /\ \A r \in ProducedRoots : is_known_root(merkle_tree, r)
        /\ \A j \in 0..MAX_DEPTH :
               (j # depth - 1 /\ ZEROS(j) \notin ProducedRoots) =>
                   ~is_known_root(merkle_tree, ZEROS(j))

C12_Witness ==
    /\ InsertSucceeded
    /\ Len(leaves) = ROOT_HISTORY_SIZE - 1
    /\ Cardinality(ProducedRoots) = ROOT_HISTORY_SIZE - 1
    /\ is_known_root(merkle_tree, ZEROS(depth - 1))
    /\ \A r \in ProducedRoots : is_known_root(merkle_tree, r)
    /\ ~is_known_root(merkle_tree, ZEROS(0))

\* The tree is as MerkleTree::new returned it.
Fresh == ret.op = "none" /\ leaves = <<>>

\* C15: a fresh tree of depth d has get_last_root() = ZEROS[d-1],
\* filled_subtrees[i] = ZEROS[i] for every level i < d, current_root_index = 0
\* and next_index = 0.
C15_FreshTree ==
    /\ \A d \in 1..MAX_DEPTH :
           LET t == New(d).tree
           IN  /\ get_last_root(t) = ZEROS(d - 1)
               /\ \A i \in 0..(d - 1) : VecGet(t.filled_subtrees, i) = ZEROS(i)
               /\ t.current_root_index = 0
               /\ t.next_index = 0
    /\ Fresh =>
           /\ merkle_tree = New(depth).tree
           /\ get_last_root(merkle_tree) = ZEROS(depth - 1)
           /\ \A i \in 0..(depth - 1) :
                  VecGet(merkle_tree.filled_subtrees, i) = ZEROS(i)
           /\ merkle_tree.current_root_index = 0
           /\ merkle_tree.next_index = 0

C15_Witness ==
    /\ Fresh
    /\ depth = MAX_DEPTH
    /\ get_last_root(merkle_tree) = ZEROS(MAX_DEPTH - 1)
    /\ merkle_tree.filled_subtrees = [i \in 1..(MAX_DEPTH + 1) |-> ZEROS(i - 1)]

\* Construction was refused.
ConstructionRefused == ret.op = "new"

ReadLevels(n) == {i \in 0..(depth - 1) : (n \div Pow2(i)) % 2 = 1}

\* At every level the insert of leaf number n would read, filled holds the
\* hash of the left sibling of the node on the path, in the tree of leaves ls.
ReadsAreLeftSiblings(filled, n, ls) ==
    \A i \in ReadLevels(n) :
        VecGet(filled, i) = NodeHash(ls, i, (n \div Pow2(i)) - 1)

\* C25: every filled_subtrees[i] an insert reads (its node is a right child
\* at level i) is the hash of that node's left sibling in the current tree:
\* so it is for the next insert in every reachable state, and so it was for
\* the insert that has just been made.
C25_FilledSubtreesReadFresh ==
    /\ ReadsAreLeftSiblings(merkle_tree.filled_subtrees, merkle_tree.next_index,
                            leaves)
    /\ InsertSucceeded =>
           ReadsAreLeftSiblings(pre.merkle_tree.filled_subtrees,
                                pre.merkle_tree.next_index,
                                SubSeq(leaves, 1, Len(leaves) - 1))

C25_Witness ==
    /\ InsertSucceeded
    /\ depth = MAX_DEPTH
    /\ ReadLevels(pre.merkle_tree.next_index) = 0..(MAX_DEPTH - 1)
    /\ \E i \in 1..Len(leaves) : leaves[i] # ZEROS(0)

\* The root-history window: the roots the tree was constructed with or
\* produced that have been followed by fewer than ROOT_HISTORY_SIZE inserts.
InWindow(k) == k >= 1 /\ Len(rootLog) - k < ROOT_HISTORY_SIZE
Window == {rootLog[k] : k \in {i \in 1..Len(rootLog) : InWindow(i)}}

\* Arguments for is_known_root: the all-zero value, every entry of the ZEROS
\* table, every root the tree has had, and leaf values that are no root.
RootArguments ==
    {ZERO_VALUE} \cup Leaves \cup {ZEROS(j) : j \in 0..MAX_DEPTH}
                 \cup {rootLog[k] : k \in 1..Len(rootLog)}

\* Slot number k (from 1) of a scan that starts at current_root_index and
\* goes backward, from slot 0 on to slot ROOT_HISTORY_SIZE - 1.
BackwardSlot(k) ==
    (merkle_tree.current_root_index + ROOT_HISTORY_SIZE * k - (k - 1))
        % ROOT_HISTORY_SIZE

\* C26: in every reachable tree state and for every argument is_known_root
\* ends after examining at most ROOT_HISTORY_SIZE slots, which are
\* current_root_index and the slots before it in backward order with
\* wrap-around from 0 to ROOT_HISTORY_SIZE - 1, none of them twice; a scan
\* that finds nothing has examined all ROOT_HISTORY_SIZE slots.
C26_ScanTerminatesInOrder ==
    \A r \in RootArguments :
        LET v == KnownRootScan(merkle_tree, r)
        IN  /\ v.done
            /\ Len(v.slots) <= ROOT_HISTORY_SIZE
            /\ \A k \in 1..Len(v.slots) : v.slots[k] = BackwardSlot(k)
            /\ \A k, l \in 1..Len(v.slots) : v.slots[k] = v.slots[l] => k = l
            /\ (r # ZERO_VALUE /\ ~v.found) => Len(v.slots) = ROOT_HISTORY_SIZE
            /\ v.found = is_known_root(merkle_tree, r)

C26_Witness ==
    /\ InsertSucceeded
    /\ merkle_tree.current_root_index = 1
    /\ Len(merkle_tree.roots) = ROOT_HISTORY_SIZE
    /\ \E r \in RootArguments :
           /\ KnownRootScan(merkle_tree, r).found
           /\ Len(KnownRootScan(merkle_tree, r).slots) = ROOT_HISTORY_SIZE
           /\ KnownRootScan(merkle_tree, r).slots[3] = ROOT_HISTORY_SIZE - 1

\* C27: while fewer than ROOT_HISTORY_SIZE inserts have succeeded, roots is
\* the list of the initial root ZEROS[DEPTH-1] followed by the roots of the
\* inserts in the order they were made (n + 1 entries), and the root of each
\* insert is what get_last_root returns right after it.
C27_RootsListInOrder ==
    /\ InsertSucceeded => get_last_root(merkle_tree) = rootLog[Len(rootLog)]
    /\ Len(leaves) < ROOT_HISTORY_SIZE =>
           /\ Len(merkle_tree.roots) = Len(leaves) + 1
           /\ merkle_tree.roots[1] = ZEROS(depth - 1)
           /\ \A k \in 1..Len(leaves) :
                  merkle_tree.roots[k + 1] =
                      ReferenceRoot(depth, SubSeq(leaves, 1, k))
           /\ merkle_tree.roots = rootLog

C27_Witness ==
    /\ InsertSucceeded
    /\ Len(leaves) = ROOT_HISTORY_SIZE - 1
    /\ Len(merkle_tree.roots) = ROOT_HISTORY_SIZE
    /\ merkle_tree.roots = rootLog
    /\ Cardinality({rootLog[k] : k \in 1..Len(rootLog)}) = ROOT_HISTORY_SIZE

\* The number of roots the window holds: min(n + 1, ROOT_HISTORY_SIZE).
WindowSize ==
    IF Len(leaves) + 1 < ROOT_HISTORY_SIZE THEN Len(leaves) + 1
    ELSE ROOT_HISTORY_SIZE

\* C28: is_known_root(r) is true only if r is not the all-zero value and is
\* one of the most recent min(n + 1, ROOT_HISTORY_SIZE) roots of the tree,
\* the initial root counted as the first; slots never written match nothing.
C28_NoFalsePositives ==
    /\ Cardinality({k \in 1..Len(rootLog) : InWindow(k)}) = WindowSize
    /\ \A r \in RootArguments :
           is_known_root(merkle_tree, r) => (r # ZERO_VALUE /\ r \in Window)
    /\ \A r \in RootArguments :
           KnownRootScan(merkle_tree, r).found =>
               LET v == KnownRootScan(merkle_tree, r)
               IN  VecHas(merkle_tree.roots, v.slots[Len(v.slots)])

C28_Witness ==
    /\ InsertSucceeded
    /\ Len(leaves) > ROOT_HISTORY_SIZE
    /\ \E k \in 1..Len(rootLog) :
           /\ ~InWindow(k)
           /\ rootLog[k] \notin Window
           /\ ~is_known_root(merkle_tree, rootLog[k])
    /\ \A r \in Window : is_known_root(merkle_tree, r)

\* C29: after n successful inserts current_root_index = n mod
\* ROOT_HISTORY_SIZE; it is below ROOT_HISTORY_SIZE and a valid index into
\* roots, and roots has min(n + 1, ROOT_HISTORY_SIZE) entries.
C29_RingIndex ==
    /\ merkle_tree.current_root_index = Len(leaves) % ROOT_HISTORY_SIZE
    /\ merkle_tree.current_root_index < ROOT_HISTORY_SIZE
    /\ VecHas(merkle_tree.roots, merkle_tree.current_root_index)
    /\ Len(merkle_tree.roots) = WindowSize
    /\ Len(merkle_tree.roots) <= ROOT_HISTORY_SIZE

C29_Witness ==
    /\ InsertSucceeded
    /\ Len(leaves) = ROOT_HISTORY_SIZE + 1
    /\ merkle_tree.current_root_index = 1
    /\ Len(merkle_tree.roots) = ROOT_HISTORY_SIZE

---------------------------------------------------------------------------
(* Properties of the contract (checked under Spec) *)

WithdrawReturned == ret.op = "withdraw"
WithdrawSucceeded == ret.op = "withdraw" /\ ret.err = "Ok"
WithdrawFailed == ret.op = "withdraw" /\ ret.err # "Ok"

\* How often withdraw has returned Ok for commitment c: once per Withdrawn
\* event, which withdraw emits right before it returns Ok.
OkWithdrawals(c, evs) == CopiesIn(Withdrawn(c), evs)

\* The last call was a withdraw of a commitment whose withdraw had already
\* succeeded when it was entered.
WithdrawnBefore == WithdrawReturned /\ OkWithdrawals(ret.hash, pre.events) >= 1

\* C1: withdraw returns Ok at most once per commitment; a withdraw of a
\* commitment already withdrawn fails and transfers nothing.
C1_ExactlyOnce ==
    /\ \A c \in Commitments : OkWithdrawals(c, events) <= 1
    /\ WithdrawnBefore => (ret.err # "Ok" /\ balance = pre.balance)
    /\ pc # "idle" => OkWithdrawals(call.commitment, events) = 0

C1_Witness ==
    /\ WithdrawnBefore
    /\ ret.err = "NullifierAlreadyUsed"
    /\ ret.to = ""

\* C6: is_known_root of the all-zero value is false in every reachable state,
\* so a withdraw that claims the all-zero root fails with UnknownRoot.
C6_ZeroRootNeverKnown ==
    /\ ~is_known_root(merkle_tree, ZERO_VALUE)
    /\ (WithdrawReturned /\ ret.root = ZERO_VALUE) => ret.err = "UnknownRoot"
    /\ pc # "idle" => call.root # ZERO_VALUE

C6_Witness ==
    /\ WithdrawReturned
    /\ ret.root = ZERO_VALUE
    /\ ret.err = "UnknownRoot"
    /\ Len(merkle_tree.roots) < ROOT_HISTORY_SIZE

\* The last call was a second withdraw of a commitment, with a known root.
SecondWithdrawKnownRoot ==
    WithdrawnBefore /\ is_known_root(pre.merkle_tree, ret.root)

\* C7 as stated: a second withdraw of a commitment with a still-known root
\* fails with NullifierAlreadyUsed, and the balance changed only the first time.
C7_SecondFailsNullifierAlreadyUsed ==
    SecondWithdrawKnownRoot =>
        (ret.err = "NullifierAlreadyUsed" /\ balance = pre.balance)

\* C7 amended: the withdraw that succeeds lowers the balance by deposit_size;
\* a second withdraw of that commitment with a still-known root changes
\* nothing and fails, with NullifierAlreadyUsed when the balance is at least
\* deposit_size and with InsufficientFunds when it is not.
C7_SecondFailsByPrecedence ==
    /\ WithdrawSucceeded =>
           /\ OkWithdrawals(ret.hash, pre.events) = 0
           /\ balance = pre.balance - deposit_size
    /\ SecondWithdrawKnownRoot =>
           /\ ret.err = IF pre.balance >= deposit_size
                        THEN "NullifierAlreadyUsed" ELSE "InsufficientFunds"
           /\ balance = pre.balance

C7_Witness ==
    /\ SecondWithdrawKnownRoot
    /\ ret.root = get_last_root(merkle_tree)
    /\ pre.balance < deposit_size
    /\ ret.err = "InsufficientFunds"

\* C8: a deposit whose attached value is not deposit_size fails with
\* InvalidTransferredAmount and leaves the tree, the nullifiers, the balance
\* and the events as they were.
C8_InvalidAmountChangesNothing ==
    (ret.op = "deposit" /\ ret.value # deposit_size) =>
        /\ ret.err = "InvalidTransferredAmount"
        /\ ret.root = NoHash
        /\ Snapshot = pre

C8_Witness ==
    /\ ret.op = "deposit"
    /\ ret.value = invalid_deposit_size
    /\ ret.err = "InvalidTransferredAmount"
    /\ merkle_tree.next_index > 0
    /\ merkle_tree.next_index < Pow2(depth)

\* C9: a withdraw that returns an error leaves the tree, the nullifiers, the
\* balance and the events as they were when it was entered.
C9_FailedWithdrawChangesNothing ==
    WithdrawFailed =>
        /\ ret.err \in {"UnknownRoot", "InsufficientFunds", "NullifierAlreadyUsed",
                        "InvalidDepositSize"}
        /\ Snapshot = pre

C9_Witness ==
    /\ WithdrawFailed
    /\ ret.err = "InvalidDepositSize"
    /\ balance >= deposit_size

\* C10: when withdraw invokes the external transfer, the commitment is
\* already marked used in the registry.
C10_MarkedBeforeTransfer ==
    pc = "transfer" => NullifierIsUsed(call.commitment)

\* The scenario of C11: two different commitments A, B were deposited (fewer
\* deposits than ROOT_HISTORY_SIZE), A has been withdrawn, and the last call
\* is withdraw(B, ZEROS[DEPTH-1]), the root MerkleTree::new stored.
C11_Scenario ==
    /\ WithdrawReturned
    /\ Len(leaves) = 2
    /\ Len(leaves) < ROOT_HISTORY_SIZE
    /\ leaves[1] # leaves[2]
    /\ OkWithdrawals(leaves[1], pre.events) = 1
    /\ OkWithdrawals(leaves[2], pre.events) = 0
    /\ ret.hash = leaves[2]
    /\ ret.root = ZEROS(depth - 1)

\* C11 as stated: after deposit(A), deposit(B) and withdraw(A, R2), the call
\* withdraw(B, ZEROS[DEPTH-1]) fails with UnknownRoot.
C11_InitialRootFailsUnknownRoot ==
    C11_Scenario => ret.err = "UnknownRoot"

\* C11 amended: after deposit(A), deposit(B) and withdraw(A, R2), the initial
\* root ZEROS[DEPTH-1] is still in the history, so withdraw(B, ZEROS[DEPTH-1])
\* passes the root check: it returns Ok, pays deposit_size to the caller and
\* marks B, unless the transfer fails (InvalidDepositSize, nothing changed).
C11_InitialRootStillKnown ==
    C11_Scenario =>
        /\ is_known_root(pre.merkle_tree, ret.root)
        /\ pre.balance = deposit_size
        /\ ret.err \in {"Ok", "InvalidDepositSize"}
        /\ ret.err = "Ok" =>
               /\ balance = pre.balance - deposit_size
               /\ NullifierIsUsed(ret.hash)
        /\ ret.err = "InvalidDepositSize" => Snapshot = pre

C11_Witness ==
    /\ C11_Scenario
    /\ ret.err = "Ok"
    /\ balance = 0
    /\ used_nullifiers = Commitments

\* C13: a withdraw whose claimed root the ledger never produced, or produced
\* but has since pushed out of the root-history window, fails with UnknownRoot
\* and changes nothing, for every commitment, caller and balance.
C13_RootOutsideWindowFails ==
    /\ \A r \in ClaimRoots \ Window : \A c \in Commitments :
           WithdrawCheck(c, r) = "UnknownRoot"
    /\ (WithdrawReturned /\ ret.root \notin Window) =>
           (ret.err = "UnknownRoot" /\ Snapshot = pre)
    /\ pc # "idle" => call.root \in Window

C13_Witness ==
    /\ WithdrawReturned
    /\ ret.err = "UnknownRoot"
    /\ ret.root \in ProducedRoots \ Window
    /\ ZEROS(0) \in ClaimRoots \ (Window \cup ProducedRoots)
    /\ balance >= deposit_size
    /\ ~NullifierIsUsed(ret.hash)
    /\ ret.hash \in {leaves[k] : k \in 1..Len(leaves)}

\* The commitments the successful deposits have inserted.
DepositedLeaves == {leaves[k] : k \in 1..Len(leaves)}

\* C14: a withdraw with a known root of a commitment no deposit has inserted
\* is rejected with UnknownNullifier: it never passes the checks to reach the
\* transfer, and withdraw returns Ok only for a commitment that an earlier
\* successful deposit inserted.
C14_NeverDepositedFailsUnknownNullifier ==
    /\ pc # "idle" => call.commitment \in DepositedLeaves
    /\ WithdrawSucceeded => ret.hash \in DepositedLeaves
    /\ ret.err = "UnknownNullifier" =>
           (WithdrawReturned /\ ret.hash \notin DepositedLeaves)

\* The lifecycle state of the ledger, by the number of deposits it holds.
Phase(t) ==
    IF t.next_index = 0 THEN "Empty"
    ELSE IF t.next_index < Pow2(depth) THEN "Active"
    ELSE "Full"

\* The withdraw (commitment, root) meets the three conditions of the checks.
Withdrawable(commitment, root) ==
    /\ is_known_root(merkle_tree, root)
    /\ balance >= deposit_size
    /\ ~NullifierIsUsed(commitment)

\* One step of the contract, as C17 constrains it.
C17_Step ==
    /\ merkle_tree'.next_index >= merkle_tree.next_index
    /\ Phase(merkle_tree') # Phase(merkle_tree) =>
           <<Phase(merkle_tree), Phase(merkle_tree')>> \in
               {<<"Empty", "Active">>, <<"Active", "Full">>}
    /\ Phase(merkle_tree) = "Full" =>
           /\ Phase(merkle_tree') = "Full"
           /\ ret'.op = "deposit" =>
                  /\ ret'.err = IF ret'.value = deposit_size
                                 THEN "MerkleTreeIsFull"
                                 ELSE "InvalidTransferredAmount"
                  /\ Snapshot' = Snapshot
           /\ (pc = "idle" /\ ret'.op = "withdraw") =>
                  ~Withdrawable(ret'.hash, ret'.root)
           /\ (pc = "idle" /\ pc' = "transfer") =>
                  Withdrawable(call'.commitment, call'.root)
           /\ pc = "mark" =>
                  /\ ret' = WithdrawRet(call, "Ok")
                  /\ call.commitment \in used_nullifiers'

\* C17: the ledger moves Empty -> Active -> Full and never back, its deposit
\* count never decreases and Full is never left; in Full every deposit is
\* rejected (MerkleTreeIsFull when the amount is right) and changes nothing,
\* while a withdraw with a known root, sufficient balance and an unused
\* commitment is still admitted and completes with Ok once paid.
C17_Lifecycle == [][C17_Step]_vars

C17_Witness ==
    /\ WithdrawSucceeded
    /\ Phase(pre.merkle_tree) = "Full"
    /\ Phase(merkle_tree) = "Full"
    /\ CopiesIn(Deposited(ret.hash), events) >= 1
    /\ balance = pre.balance - deposit_size

DepositSucceeded == ret.op = "deposit" /\ ret.err = "Ok"

\* What a successful deposit does apart from the root changing: the commitment
\* is the next leaf of the tree, the root it returns is the one get_root_hash
\* reports afterwards, and exactly one Deposited event with the commitment is
\* added.
DepositEffects ==
    /\ merkle_tree.next_index = pre.merkle_tree.next_index + 1
    /\ Len(leaves) = merkle_tree.next_index
    /\ leaves[Len(leaves)] = ret.hash
    /\ get_root_hash = ReferenceRoot(depth, leaves)
    /\ ret.root = get_root_hash
    /\ events = pre.events (+) SetToBag({Deposited(ret.hash)})
    /\ CopiesIn(Deposited(ret.hash), events) =
           CopiesIn(Deposited(ret.hash), pre.events) + 1
    /\ balance = pre.balance + deposit_size
    /\ used_nullifiers = pre.used_nullifiers

\* The deposit put the empty-leaf constant ZEROS[0] into a tree that already
\* had a leaf: the padded tree, and so its root, is the same as before.
DepositedEmptyLeafConstant ==
    ret.hash = ZEROS(0) /\ pre.merkle_tree.next_index >= 1

\* C18 as stated: a successful deposit inserts the commitment as the next
\* leaf, returns the root after the insertion, which get_root_hash reports
\* afterwards and which differs from the root before, and emits exactly one
\* Deposited event with the commitment.
C18_DepositReturnsNewRoot ==
    DepositSucceeded =>
        /\ DepositEffects
        /\ ret.root # get_last_root(pre.merkle_tree)

\* C18 amended: as stated, except that the returned root differs from the
\* root before unless the commitment is the empty-leaf constant ZEROS[0]
\* deposited into a tree that is not empty, in which case the root is
\* unchanged.
C18_DepositReturnsRootAfterInsert ==
    DepositSucceeded =>
        /\ DepositEffects
        /\ ret.root = get_last_root(pre.merkle_tree) <=> DepositedEmptyLeafConstant

C18_Witness ==
    /\ DepositSucceeded
    /\ DepositedEmptyLeafConstant
    /\ ret.root = get_last_root(pre.merkle_tree)
    /\ ret.root = get_root_hash
    /\ \E k \in 1..Len(leaves) : leaves[k] # ZEROS(0)

\* The last call was a withdraw with a known root that failed for lack of
\* funds: the balance was below deposit_size, or the checks passed (the
\* commitment was unused) and the transfer failed.
FailedForFunds ==
    /\ WithdrawFailed
    /\ is_known_root(pre.merkle_tree, ret.root)
    /\ (pre.balance < deposit_size \/ ret.hash \notin pre.used_nullifiers)

\* C19: a withdraw that fails because the balance is below deposit_size or
\* because the transfer fails returns InsufficientFunds and leaves the
\* commitment unmarked (nothing changes).
C19_FundsFailureIsInsufficientFunds ==
    FailedForFunds =>
        /\ ret.err = "InsufficientFunds"
        /\ used_nullifiers = pre.used_nullifiers
        /\ Snapshot = pre

C21_Step ==
    /\ used_nullifiers \subseteq used_nullifiers'
    /\ used_nullifiers' # used_nullifiers =>
           /\ ret'.op = "withdraw"
           /\ ret'.err = "Ok"
           /\ used_nullifiers' = used_nullifiers \cup {ret'.hash}

\* C21: the registry only grows: every step keeps all the commitments that
\* were marked, and a commitment is added only by the step in which a
\* withdraw of that commitment returns Ok.
C21_RegistryGrowOnly == [][C21_Step]_vars

C21_Witness ==
    /\ WithdrawSucceeded
    /\ pre.used_nullifiers # {}
    /\ ret.hash \notin pre.used_nullifiers
    /\ used_nullifiers = pre.used_nullifiers \cup {ret.hash}

\* One step of the contract, as C22 constrains it: from the nullifier lookup
\* of a withdraw to its mark only that withdraw moves.
C22_Step ==
    /\ (pc = "idle" /\ pc' = "transfer") =>
           ~NullifierIsUsed(call'.commitment)
    /\ pc = "transfer" =>
           /\ pc' \in {"mark", "idle"}
           /\ pc' = "mark" => call' = call
           /\ pc' = "idle" => ret' = WithdrawRet(call, "InvalidDepositSize")
           /\ pre' = pre
           /\ UNCHANGED <<used_nullifiers, merkle_tree, events>>
    /\ pc = "mark" =>
           /\ pc' = "idle"
           /\ pre' = pre
           /\ ret' = WithdrawRet(call, "Ok")
           /\ call.commitment \notin used_nullifiers
           /\ used_nullifiers' = used_nullifiers \cup {call.commitment}

C24_Step ==
    /\ (pc = "idle" /\ ret'.op = "withdraw") =>
           ~(/\ ret'.root \in Window
             /\ balance >= deposit_size
             /\ ~NullifierIsUsed(ret'.hash))
    /\ (pc = "transfer" /\ balance' = balance - deposit_size) => pc' = "mark"
    /\ pc = "mark" =>
           /\ ret' = WithdrawRet(call, "Ok")
           /\ balance' = pre.balance - deposit_size

\* C24: a withdraw whose root is any root of the history window, made when
\* the balance is at least deposit_size and the commitment is not in the
\* registry, is not rejected, and returns Ok when its transfer succeeds; so
\* does withdraw(A, R2) after deposit(A), deposit(B).
C24_WithdrawSucceedsWhenAdmissible == [][C24_Step]_vars

C24_Witness ==
    /\ WithdrawSucceeded
    /\ Len(leaves) = 2
    /\ leaves[1] # leaves[2]
    /\ ret.hash = leaves[1]
    /\ ret.root = rootLog[3]
    /\ ret.root # rootLog[2]
    /\ pre.balance = 2 * deposit_size

\* C30: a withdraw, whether it returns Ok or an error and at every point of
\* its execution, leaves the tree (next_index, current_root_index, roots,
\* filled_subtrees) and so the current root as they were when it was entered;
\* a deposit, successful or not, leaves the registry as it was; deposit_size
\* stays what the constructor set.
C30_FrameConditions ==
    /\ (WithdrawReturned \/ pc # "idle") =>
           /\ merkle_tree = pre.merkle_tree
           /\ get_root_hash = get_last_root(pre.merkle_tree)
    /\ ret.op = "deposit" => used_nullifiers = pre.used_nullifiers
    /\ deposit_size = DEFAULT_DEPOSIT_SIZE

C30_Witness ==
    /\ WithdrawSucceeded
    /\ merkle_tree = pre.merkle_tree
    /\ merkle_tree.next_index > 0
    /\ used_nullifiers # pre.used_nullifiers
    /\ balance # pre.balance

\* The preconditions of the last withdraw, as they were when it was entered.
RootWasKnown == is_known_root(pre.merkle_tree, ret.root)
FundsSufficed == pre.balance >= deposit_size
WasUnused == ret.hash \notin pre.used_nullifiers

\* C31: when several preconditions of a withdraw fail at once the error is
\* the first in the order UnknownRoot, InsufficientFunds,
\* NullifierAlreadyUsed: an unknown root gives UnknownRoot whatever the
\* balance and the registry are, and a used commitment with a known root
\* gives InsufficientFunds when the balance is below deposit_size.
C31_ErrorPrecedence ==
    WithdrawReturned =>
        /\ ~RootWasKnown => ret.err = "UnknownRoot"
        /\ (RootWasKnown /\ ~FundsSufficed) => ret.err = "InsufficientFunds"
        /\ (RootWasKnown /\ FundsSufficed /\ ~WasUnused) =>
               ret.err = "NullifierAlreadyUsed"
        /\ ret.err = "UnknownRoot" => ~RootWasKnown
        /\ ret.err = "InsufficientFunds" => ~FundsSufficed
        /\ ret.err = "NullifierAlreadyUsed" => ~WasUnused

C31_Witness ==
    /\ WithdrawReturned
    /\ ~RootWasKnown
    /\ ~FundsSufficed
    /\ ~WasUnused
    /\ ret.root = ZEROS(0)
    /\ ret.err = "UnknownRoot"

\* How many deposits and how many withdraws have returned Ok: one Deposited
\* or Withdrawn event each.
RECURSIVE SumOver(_, _)
SumOver(S, evs) ==
    IF S = {} THEN 0
    ELSE LET e == CHOOSE x \in S : TRUE
         IN  CopiesIn(e, evs) + SumOver(S \ {e}, evs)
OkDepositCount == SumOver({Deposited(c) : c \in Commitments}, events)
OkWithdrawCount == SumOver({Withdrawn(c) : c \in Commitments}, events)

=============================================================================
